---- MODULE Spec2Model ----
(***************************************************************************)
(* A model of sqlalchemy_facade: the WriteRepository, which keeps one      *)
(* lazily created session in a private slot across calls, and the          *)
(* ReadRepository, which opens a session per call but also parks it in a   *)
(* private slot.  The database is one table "items" with a generated       *)
(* primary key id, a unique column k and a plain column v.  A session      *)
(* works on its own view of the table (autocommit=False); only a commit    *)
(* makes the view durable, and a read in a fresh session sees the durable  *)
(* table alone.                                                            *)
(***************************************************************************)
EXTENDS Integers, Sequences, FiniteSets, TLC

\* ------------------------------------------------------------------ bounds
MaxSeq == 2
MaxWSess == 2
MaxRows == 5
MaxBatch == 3
MaxShared == 2
MaxRSess == 4
MaxNames == 2

\* ------------------------------------------------------------- the table
NoId == 0
None == 0
Star == "*"
Keys == {"a", "b"}
Vals == {"x", "y"}
ExplicitIds == {1}
Ids == (1..MaxSeq) \cup ExplicitIds

\* An entity is what the caller passes: entity.__dict__ without
\* _sa_instance_state.  id = NoId: the attribute was never set, so the
\* database generates the key.
Entities == [id : ExplicitIds \cup {NoId}, k : Keys, v : Vals]
AutoEntities == {e \in Entities : e.id = NoId}

\* filter_by(**filters): column -> value, ANDed; NoId / Star: column absent.
\* The callers' filters name at most one column.
Filters ==
    {f \in [id : {NoId}, k : Keys \cup {Star}, v : Vals \cup {Star}] :
        f.k = Star \/ f.v = Star}
NoArg == [id |-> NoId, k |-> Star, v |-> Star]

Matches(r, f) ==
    /\ (f.id = NoId \/ r.id = f.id)
    /\ (f.k = Star \/ r.k = f.k)
    /\ (f.v = Star \/ r.v = f.v)

Matching(tbl, f) == {r \in tbl : Matches(r, f)}

\* What a statement did: where it failed ("none": it did not), the table
\* and the key sequence after it, and the value the body returns.
Eff(failAt, tbl, seq, ret) ==
    [failAt |-> failAt, tbl |-> tbl, seq |-> seq, ret |-> ret]

\* The row an INSERT of entity e writes: a missing id comes from the sequence.
NewRow(e, seq) ==
    [id |-> IF e.id = NoId THEN seq + 1 ELSE e.id, k |-> e.k, v |-> e.v]

NextSeq(e, seq) == IF e.id = NoId THEN seq + 1 ELSE seq

\* A unique constraint (primary key id, unique k) that row r would violate.
Conflicts(tbl, r) == \E q \in tbl : q.id = r.id \/ q.k = r.k

\* ------------------------------------------------------- statement effects
\* session.add(row), then the INSERT at flush: a duplicate id or k fails there.
InsertEff(tbl, seq, e) ==
    LET r == NewRow(e, seq)
    IN  IF Conflicts(tbl, r)
        THEN Eff("flush", tbl, NextSeq(e, seq), None)
        ELSE Eff("none", tbl \cup {r}, NextSeq(e, seq), None)

RECURSIVE BulkInsertFrom(_, _, _, _)
BulkInsertFrom(tbl, seq, rows, i) ==
    IF i > Len(rows) THEN Eff("none", tbl, seq, None)
    ELSE LET one == InsertEff(tbl, seq, rows[i])
         IN  IF one.failAt # "none" THEN one
             ELSE BulkInsertFrom(one.tbl, one.seq, rows, i + 1)

\* session.add_all(rows), then the INSERTs at flush.
BulkInsertEff(tbl, seq, rows) == BulkInsertFrom(tbl, seq, rows, 1)

\* The row that ON CONFLICT (idx) DO UPDATE SET cols = excluded.cols leaves
\* in place of row t when the proposed row is r.
Updated(t, r, cols) ==
    [id |-> IF "id" \in cols THEN r.id ELSE t.id,
     k  |-> IF "k" \in cols THEN r.k ELSE t.k,
     v  |-> IF "v" \in cols THEN r.v ELSE t.v]

\* The columns entity e carries: id only when it was set.
Columns(e) == IF e.id = NoId THEN {"k", "v"} ELSE {"id", "k", "v"}

\* Mutant of UpsertEff: ON CONFLICT DO NOTHING instead of DO UPDATE.
UpsertEffDoNothing(tbl, seq, e, idx) ==
    LET r == NewRow(e, seq)
    IN  IF Conflicts(tbl, r) THEN Eff("none", tbl, NextSeq(e, seq), None)
        ELSE Eff("none", tbl \cup {r}, NextSeq(e, seq), None)

\* INSERT ... VALUES (properties) ON CONFLICT (idx) DO UPDATE SET properties.
\* A conflict on idx updates the row in place; a violation of another
\* unique constraint is an error of the statement.
UpsertEff(tbl, seq, e, idx) ==
    LET r == NewRow(e, seq)
        s2 == NextSeq(e, seq)
        target == {q \in tbl : q[idx] = r[idx]}
    IN  IF target = {}
        THEN IF Conflicts(tbl, r) THEN Eff("exec", tbl, s2, None)
             ELSE Eff("none", tbl \cup {r}, s2, None)
        ELSE LET t == CHOOSE q \in target : TRUE
                 u == Updated(t, r, Columns(e))
             IN  IF Conflicts(tbl \ {t}, u) THEN Eff("exec", tbl, s2, None)
                 ELSE Eff("none", (tbl \ {t}) \cup {u}, s2, None)

\* INSERT ... ON CONFLICT DO NOTHING: any unique violation skips the row.
InsertIgnoreEff(tbl, seq, e) ==
    LET r == NewRow(e, seq)
    IN  IF Conflicts(tbl, r) THEN Eff("none", tbl, NextSeq(e, seq), None)
        ELSE Eff("none", tbl \cup {r}, NextSeq(e, seq), None)

\* The lookup filter of insert_ignore_get_id: the str/int/float/bool valued
\* properties of the entity (id when set, k, v).
ScalarFilter(e) == [id |-> e.id, k |-> e.k, v |-> e.v]

\* Mutant of InsertIgnoreGetIdEff: the value of the sequence is returned
\* instead of the inserted primary key.
InsertIgnoreGetIdEffSeq(tbl, seq, e) ==
    LET r == NewRow(e, seq)
        s2 == NextSeq(e, seq)
        found == Matching(tbl, ScalarFilter(e))
    IN  IF ~Conflicts(tbl, r) THEN Eff("none", tbl \cup {r}, s2, s2)
        ELSE IF found = {} THEN Eff("body", tbl, s2, None)
        ELSE Eff("none", tbl, s2, (CHOOSE q \in found : TRUE).id)

\* insert_ignore_get_id's body: the inserted key, or on a conflict the key
\* of the row found by the scalar filter; fetchone() of an empty result is
\* None and None[0] raises in the body.
InsertIgnoreGetIdEff(tbl, seq, e) ==
    LET r == NewRow(e, seq)
        s2 == NextSeq(e, seq)
        found == Matching(tbl, ScalarFilter(e))
    IN  IF ~Conflicts(tbl, r) THEN Eff("none", tbl \cup {r}, s2, r.id)
        ELSE IF found = {} THEN Eff("body", tbl, s2, None)
        ELSE Eff("none", tbl, s2, (CHOOSE q \in found : TRUE).id)

RECURSIVE BulkUpsertFrom(_, _, _, _, _, _, _)
BulkUpsertFrom(tbl, seq, rows, i, idx, cols, touched) ==
    IF i > Len(rows) THEN Eff("none", tbl, seq, None)
    ELSE LET e == rows[i]
             r == NewRow(e, seq)
             s2 == NextSeq(e, seq)
             target == {q \in tbl : q[idx] = r[idx]}
         IN  IF target = {}
             THEN IF Conflicts(tbl, r) THEN Eff("exec", tbl, s2, None)
                  ELSE BulkUpsertFrom(tbl \cup {r}, s2, rows, i + 1, idx, cols,
                                      touched \cup {r.id})
             ELSE LET t == CHOOSE q \in target : TRUE
                      u == Updated(t, r, cols)
                  IN  \* a row proposed twice in one statement is an error
                      IF t.id \in touched \/ Conflicts(tbl \ {t}, u)
                      THEN Eff("exec", tbl, s2, None)
                      ELSE BulkUpsertFrom((tbl \ {t}) \cup {u}, s2, rows, i + 1,
                                          idx, cols, touched \cup {u.id})

\* Mutant of BulkUpsertEff: no "if rows" guard; a statement runs for an
\* empty list too and takes a value of the key sequence.
BulkUpsertEffUnguarded(tbl, seq, rows, idx, update_columns) ==
    IF rows = <<>> THEN Eff("none", tbl, seq + 1, None)
    ELSE BulkUpsertFrom(tbl, seq, rows, 1, idx,
                        IF update_columns # {} THEN update_columns
                        ELSE Columns(rows[1]),
                        {})

\* bulk_upsert's body: nothing at all for an empty list, else one multi-row
\* statement whose update targets are update_columns or rows[0].keys().
BulkUpsertEff(tbl, seq, rows, idx, update_columns) ==
    IF rows = <<>> THEN Eff("none", tbl, seq, None)
    ELSE BulkUpsertFrom(tbl, seq, rows, 1, idx,
                        IF update_columns # {} THEN update_columns
                        ELSE Columns(rows[1]),
                        {})

\* setattr(row, key, value) for each property on each fetched row.
SetProps(r, p) ==
    [id |-> r.id,
     k  |-> IF p.k = Star THEN r.k ELSE p.k,
     v  |-> IF p.v = Star THEN r.v ELSE p.v]

\* update's body loads the matching rows and mutates them; the UPDATEs run
\* at flush, where a duplicate k fails.
UpdateEff(tbl, seq, f, p) ==
    LET hit == Matching(tbl, f)
        new == (tbl \ hit) \cup {SetProps(r, p) : r \in hit}
    IN  IF \E q1, q2 \in new : q1 # q2 /\ q1.k = q2.k
        THEN Eff("flush", tbl, seq, None)
        ELSE Eff("none", new, seq, None)

\* Mutant of DeleteEff: only one of the matching rows is deleted.
DeleteEffFirst(tbl, seq, f) ==
    IF Matching(tbl, f) = {} THEN Eff("none", tbl, seq, None)
    ELSE Eff("none", tbl \ {CHOOSE q \in Matching(tbl, f) : TRUE}, seq, None)

\* DELETE FROM items WHERE filters.
DeleteEff(tbl, seq, f) == Eff("none", tbl \ Matching(tbl, f), seq, None)

\* The caller-built statements of execute().
Statements == {"SELECT", "DELETE"}

ExecuteEff(tbl, seq, statement) ==
    IF statement = "DELETE" THEN Eff("none", {}, seq, None)
    ELSE Eff("none", tbl, seq, None)

\* ------------------------------------------------- ReadRepository queries
\* The orders in which a query without ORDER BY may return the rows S.
Orders(S) ==
    {s \in [1..Cardinality(S) -> S] :
        \A i, j \in 1..Cardinality(S) : i # j => s[i] # s[j]}

\* session.execute(select(model).filter_by(**filters)) in a fresh session:
\* the matching rows of the durable table, in one of the possible orders.
Query(tbl, f) == Orders(Matching(tbl, f))

\* select(): rows.fetchone()[0], and None (NoRow) when that raises, as it
\* does for an empty result.
NoRow == NoArg
SelectResult(rows) == IF rows = <<>> THEN NoRow ELSE rows[1]

\* select_all(): [row for row, in rows.fetchall()].
SelectAllResult(rows) == rows

\* ---------------------------------------------------------------- state
VARIABLES
    committed,  \* the durable table: what a fresh session reads
    durable,    \* history: the table as the last successful commit() left it
    seq,        \* the id sequence of the table (not transactional)
    w,          \* WriteRepository: slot (__session) and every session it made
    wlast,      \* history: the last WriteRepository call and how it ended
    r,          \* ReadRepository: slot (__session), sessions made, those open
    gens,       \* the execute_in_batch generators the caller holds
    rlast,      \* history: the last select / select_all / execute call
    schemas,    \* the schemas the database holds
    dlast,      \* history: the last DDLRepository call and how it ended
    shared      \* history: which caller of a shared WriteRepository did what

wvars == <<committed, durable, seq, w, wlast>>
rvars == <<r, gens, rlast>>
dvars == <<schemas, dlast>>
vars ==
    <<committed, durable, seq, w, wlast, r, gens, rlast, schemas, dlast, shared>>

\* ------------------------------------------------- WriteRepository.session
\* Session(): a new session, no transaction begun, seeing the durable table.
WNew(tbl) == [open |-> TRUE, begun |-> FALSE, view |-> tbl]

WClosed == [open |-> FALSE, begun |-> FALSE, view |-> {}]

\* Mutant of WSession: a new session on every call, as ReadRepository does.
WSessionAlways(w0, tbl) ==
    [slot |-> Len(w0.sess) + 1, sess |-> Append(w0.sess, WNew(tbl))]

\* session(), up to the yield: create the session only when the slot is empty.
WSession(w0, tbl) ==
    IF w0.slot = None
    THEN [slot |-> Len(w0.sess) + 1, sess |-> Append(w0.sess, WNew(tbl))]
    ELSE w0

\* Mutant of WClose: the session is closed and the slot keeps it.
WCloseKeepsSlot(w0) ==
    IF w0.slot # None
    THEN [slot |-> w0.slot, sess |-> [w0.sess EXCEPT ![w0.slot] = WClosed]]
    ELSE w0

\* close(): close the slot's session, if any, and empty the slot.
WClose(w0) ==
    IF w0.slot # None
    THEN [slot |-> None, sess |-> [w0.sess EXCEPT ![w0.slot] = WClosed]]
    ELSE w0

\* The sessions the facade created and has not closed.
WOpen(w0) == {i \in 1..Len(w0.sess) : w0.sess[i].open}

View(w0) == w0.sess[w0.slot].view

\* Mutant of FlushDb: the flush commits (autocommit).
FlushDbCommits(tbl, view) == view

\* session.flush() at the end of the scope: the staged rows reach the
\* transaction of the session (autocommit=False), not the durable table.
FlushDb(tbl, view) == tbl

\* session(), after the yield: flush on a normal exit of the body; on a
\* failure of the body (failAt "body", or "exec" for its statement) or of
\* the flush, close() and raise again.
SessionExit(w1, failAt, view, touched) ==
    IF failAt # "none"
    THEN [w |-> WClose(w1), out |-> "raised"]
    ELSE [w |-> [w1 EXCEPT !.sess[w1.slot] =
                    [open |-> TRUE, begun |-> @.begun \/ touched, view |-> view]],
          out |-> "returned"]

\* The method around it: try: with self.session() ... except: close(); raise.
MethodExit(res) ==
    IF res.out = "raised" THEN [w |-> WClose(res.w), out |-> "raised"] ELSE res

\* The record of a call: op and its argument (an entity or filters, with
\* index_elements), where it failed, how it ended, what it returned, the
\* slot as the call found it (commit / rollback), lost: the call failed and
\* closed a session that held staged changes, and after: what the call
\* came after, where a claim needs it:
\*   "upsert"    a successful upsert with the same index value;
\*   "absent"    insert_ignore_get_id, the entity's unique key not in the
\*               table; "conflict": it was there, and the insert is ignored;
\*   "empty"     bulk_upsert of an empty list;
\*   "staged"    rollback() of a session that held changes;
\*   "delete", "insert_ignore_get_id", "failure": commit() right after a
\*               successful delete, a successful insert_ignore_get_id of an
\*               absent key, a failed call that lost staged changes.
CallRec(op, arg, idx, failAt, out, ret, had, after) ==
    [op |-> op, arg |-> arg, idx |-> idx, fault |-> failAt, out |-> out,
     ret |-> ret, had |-> had, after |-> after, lost |-> FALSE]

\* The calls that stage changes.
MutationOps ==
    {"insert", "bulk_insert", "upsert", "insert_ignore", "insert_ignore_get_id",
     "bulk_upsert", "update", "delete", "execute"}

NoCall == CallRec("none", NoArg, "", "none", "returned", None, None, "")

\* The table as the body of a mutation call sees it: the view of the
\* session that session() yields.
Cur == View(WSession(w, committed))

\* The slot's session holds changes that are not in the durable table.
Staged(w0, tbl) == w0.slot # None /\ View(w0) # tbl

\* The record of a failed call, which closes the session it found.
Discarding(rec) == [rec EXCEPT !.lost = Staged(w, committed)]

\* One mutation call whose body has effect eff on the session's view;
\* touched: the body used the session (add / execute).  The data decide
\* whether the statement or the flush fails.
Mutation(op, arg, idx, after, touched, effect) ==
    \E w1 \in {WSession(w, committed)} :
    \E eff \in {effect} :
    \E res \in {MethodExit(SessionExit(w1, eff.failAt, eff.tbl, touched))} :
        /\ Len(w1.sess) <= MaxWSess
        /\ eff.seq <= MaxSeq
        /\ w' = res.w
        /\ seq' = eff.seq
        /\ committed' = IF res.out = "returned"
                        THEN FlushDb(committed, eff.tbl) ELSE committed
        /\ wlast' = IF res.out = "returned"
                    THEN CallRec(op, arg, idx, "none", "returned", eff.ret,
                                 None, after)
                    ELSE Discarding(CallRec(op, NoArg, "", eff.failAt,
                                            "raised", None, None, after))
        /\ UNCHANGED durable

\* Failures a call can meet whatever its arguments (a lost connection, a
\* bad argument): in the body, which includes the execution of its
\* statement, or in the flush.  executes: the body runs session.execute.
Faults == {"body", "exec", "flush"}

Failure(op, executes) ==
    \E fault \in Faults :
    \E w1 \in {WSession(w, committed)} :
    \E res \in {MethodExit(SessionExit(w1, fault, View(w1), FALSE))} :
            /\ fault = "exec" => executes
            /\ Len(w1.sess) <= MaxWSess
            /\ w' = res.w
            /\ wlast' = Discarding(CallRec(op, NoArg, "", fault, res.out,
                                           None, None, ""))
            /\ UNCHANGED <<committed, durable, seq>>

insert ==
    \/ \E row \in Entities :
           Mutation("insert", NoArg, "", "", TRUE,
                    InsertEff(Cur, seq, row))
    \/ Failure("insert", FALSE)

\* Lists of rows for the bulk calls: none, one or two rows without an id.
BulkEntities == {e \in AutoEntities : e.v = "x"}
BulkRows ==
    {<<>>} \cup {<<e>> : e \in BulkEntities}
           \cup {<<e1, e2>> : e1 \in {e \in BulkEntities : e.k = "a"},
                              e2 \in BulkEntities}

IndexElements == {"id", "k"}

\* update_columns: {} is None (or an empty list, which is as false).
UpdateColumns == {{}, {"v"}}

\* properties of update(): one column to set.
Props == {p \in [k : Keys \cup {Star}, v : Vals \cup {Star}] :
            (p.k = Star) # (p.v = Star)}

bulk_insert ==
    \/ \E rows \in BulkRows :
           Mutation("bulk_insert", NoArg, "", "", rows # <<>>,
                    BulkInsertEff(Cur, seq, rows))
    \/ Failure("bulk_insert", FALSE)

\* The entity has a value in the index column.
HasIndex(e, idx) == idx = "k" \/ e.id # NoId

\* The call right before was a successful upsert on the same index column
\* with the same value in it.
Again(e, idx) ==
    /\ wlast.op = "upsert" /\ wlast.out = "returned" /\ wlast.idx = idx
    /\ HasIndex(e, idx) /\ HasIndex(wlast.arg, idx)
    /\ wlast.arg[idx] = e[idx]

upsert ==
    \/ \E entity \in Entities, index_elements \in IndexElements :
           Mutation("upsert", entity, index_elements,
                    IF Again(entity, index_elements) THEN "upsert" ELSE "",
                    TRUE,
                    UpsertEff(Cur, seq, entity, index_elements))
    \/ Failure("upsert", TRUE)

insert_ignore ==
    \/ \E entity \in Entities :
           Mutation("insert_ignore", NoArg, "", "", TRUE,
                    InsertIgnoreEff(Cur, seq, entity))
    \/ Failure("insert_ignore", TRUE)

\* No row of the table has the unique key of entity e (its k, its id).
Absent(tbl, e) == \A q \in tbl : q.k # e.k /\ (e.id = NoId \/ q.id # e.id)

insert_ignore_get_id ==
    \/ \E entity \in Entities :
           Mutation("insert_ignore_get_id", entity, "",
                    IF Absent(Cur, entity)
                    THEN "absent" ELSE "conflict",
                    TRUE,
                    InsertIgnoreGetIdEff(Cur, seq, entity))
    \/ Failure("insert_ignore_get_id", TRUE)

bulk_upsert ==
    \/ \E rows \in BulkRows, index_elements \in IndexElements,
          update_columns \in UpdateColumns :
           Mutation("bulk_upsert", NoArg, index_elements,
                    IF rows = <<>> THEN "empty" ELSE "", rows # <<>>,
                    BulkUpsertEff(Cur, seq, rows, index_elements,
                                                update_columns))
    \/ Failure("bulk_upsert", TRUE)

update ==
    \/ \E filters \in Filters, properties \in Props :
           Mutation("update", NoArg, "", "", TRUE,
                    UpdateEff(Cur, seq, filters, properties))
    \/ Failure("update", TRUE)

delete ==
    \/ \E filters \in Filters :
           Mutation("delete", filters, "", "", TRUE,
                    DeleteEff(Cur, seq, filters))
    \/ Failure("delete", TRUE)

W_execute ==
    \/ \E statement \in Statements :
           Mutation("execute", NoArg, "", "", TRUE,
                    ExecuteEff(Cur, seq, statement))
    \/ Failure("execute", TRUE)

\* ------------------------------------- start_transaction, close, commit
\* start_transaction(): session.begin() on the slot's session, which raises
\* when that session has a transaction already; nothing without a session.
Begin(w0) ==
    IF w0.slot = None THEN [w |-> w0, out |-> "returned"]
    ELSE IF w0.sess[w0.slot].begun THEN [w |-> w0, out |-> "raised"]
    ELSE [w |-> [w0 EXCEPT !.sess[w0.slot].begun = TRUE], out |-> "returned"]

start_transaction ==
    LET res == Begin(w)
    IN  /\ w' = res.w
        /\ wlast' = CallRec("start_transaction", NoArg, "",
                            IF res.out = "raised" THEN "body" ELSE "none",
                            res.out, None, w.slot, "")
        /\ UNCHANGED <<committed, durable, seq>>

W_close ==
    /\ w' = WClose(w)
    /\ wlast' = CallRec("close", NoArg, "", "none", "returned", None, w.slot, "")
    /\ UNCHANGED <<committed, durable, seq>>

\* Mutant of CommitDb: the commit makes nothing durable.
CommitDbNothing(tbl, view, ok) == tbl

\* session.commit(): the view becomes the durable table, or the call raises
\* and the transaction is gone.
CommitDb(tbl, view, ok) == IF ok THEN view ELSE tbl

\* Mutant of RollbackDb: the transaction is committed instead.
RollbackDbCommits(tbl, view, ok) == IF ok THEN view ELSE tbl

\* session.rollback(): the transaction is gone, the durable table untouched.
RollbackDb(tbl, view, ok) == tbl

\* A session whose transaction has ended without close(): it is still open,
\* and its next transaction starts from the durable table.
TxEnded(w0, tbl) ==
    [w0 EXCEPT !.sess[w0.slot] = [open |-> TRUE, begun |-> FALSE, view |-> tbl]]

\* Mutant of Finish: without a session commit() / rollback() raise.
FinishNeedsSession(w0, ok, tbl) ==
    IF w0.slot = None THEN [w |-> w0, out |-> "raised"]
    ELSE IF ok THEN [w |-> WClose(w0), out |-> "returned"]
    ELSE [w |-> TxEnded(w0, tbl), out |-> "raised"]

\* commit() / rollback(): nothing without a session; else finish the
\* transaction and then close(), which a raise of the first skips.
Finish(w0, ok, tbl) ==
    IF w0.slot = None THEN [w |-> w0, out |-> "returned"]
    ELSE IF ok THEN [w |-> WClose(w0), out |-> "returned"]
    ELSE [w |-> TxEnded(w0, tbl), out |-> "raised"]

\* The call a commit() follows, where a claim is about the pair: a
\* successful delete, a successful insert_ignore_get_id of an entity whose
\* unique key was absent, or a failed call that lost staged changes.
Follows ==
    IF wlast.out = "returned" /\ wlast.op = "delete" THEN "delete"
    ELSE IF wlast.out = "returned" /\ wlast.op = "insert_ignore_get_id"
            /\ wlast.after = "absent" THEN "insert_ignore_get_id"
    ELSE IF wlast.out = "raised" /\ wlast.lost THEN "failure"
    ELSE ""

commit ==
    \E ok \in BOOLEAN :
    \E res \in {Finish(w, ok, committed)} :
    \E db \in {IF w.slot = None THEN committed
               ELSE CommitDb(committed, View(w), ok)} :
        LET kept == /\ Follows # "" /\ res.out = "returned"
                    /\ (w.slot # None \/ Follows = "failure")
        IN  /\ (w.slot = None => ok)
            /\ w' = res.w
            /\ committed' = db
            /\ durable' = IF w.slot # None /\ ok THEN db ELSE durable
            /\ wlast' = CallRec("commit",
                                IF kept THEN wlast.arg ELSE NoArg, "",
                                IF ok THEN "none" ELSE "body", res.out,
                                IF kept THEN wlast.ret ELSE None, w.slot,
                                IF kept THEN Follows ELSE "")
            /\ UNCHANGED seq

rollback ==
    \E ok \in BOOLEAN :
    \E res \in {Finish(w, ok, committed)} :
            /\ (w.slot = None => ok)
            /\ w' = res.w
            /\ committed' = IF w.slot = None THEN committed
                            ELSE RollbackDb(committed, View(w), ok)
            /\ wlast' = CallRec("rollback", NoArg, "",
                                IF ok THEN "none" ELSE "body", res.out,
                                None, w.slot,
                                IF w.slot # None /\ View(w) # committed
                                THEN "staged" ELSE "")
            /\ UNCHANGED <<durable, seq>>

\* ----------------------------------------------- ReadRepository.session
\* session(), up to the yield: always a new session, parked in the slot
\* whatever the slot held.
RSession(r0) ==
    [slot |-> r0.made + 1, made |-> r0.made + 1,
     open |-> r0.open \cup {r0.made + 1}]

\* close(): close the session the slot holds now, if any, and empty the slot.
RClose(r0) ==
    IF r0.slot # None
    THEN [slot |-> None, made |-> r0.made, open |-> r0.open \ {r0.slot}]
    ELSE r0

\* session(), after the yield: except Exception: close(); raise -- and
\* finally: close() on every exit.
RSessionExit(r0, failed) == IF failed THEN RClose(RClose(r0)) ELSE RClose(r0)

\* The result of a statement that yields n rows, in their order.
ResultSet(n) == [i \in 1..n |-> [id |-> i, k |-> "a", v |-> "x"]]

\* The record of a read call: how it ended, what it returned, the size of
\* the result, and fault: "exec" when the execution of its query failed.
ReadRec(op, out, ret, n, fault) ==
    [op |-> op, out |-> out, ret |-> ret, n |-> n, fault |-> fault]
NoRead == ReadRec("none", "returned", NoRow, 0, "none")

\* The sizes of the results of select / select_all / execute.
SimpleSizes == 0..MaxShared

\* Mutant of ReadBody: the failure of the query becomes the sentinel.
ReadBodySwallows(ok, ret) ==
    IF ok THEN [out |-> "returned", ret |-> ret]
    ELSE [out |-> "returned", ret |-> NoRow]

\* The body of select / select_all / execute: session.execute(...) stands
\* outside any try, so its failure (ok = FALSE) leaves the body raising;
\* else the body returns ret.
ReadBody(ok, ret) ==
    IF ok THEN [out |-> "returned", ret |-> ret]
    ELSE [out |-> "raised", ret |-> NoRow]

\* One select / select_all / execute call: its own session around the
\* body, whose query fails (ok = FALSE) or yields n rows.
Read(op, n, ok, res) ==
    /\ r.made < MaxRSess
    /\ r' = RSessionExit(RSession(r), res.out = "raised")
    /\ rlast' = ReadRec(op, res.out, res.ret, IF ok THEN n ELSE 0,
                        IF ok THEN "none" ELSE "exec")
    /\ UNCHANGED gens

select ==
    \E n \in SimpleSizes, ok \in BOOLEAN :
        Read("select", n, ok, ReadBody(ok, SelectResult(ResultSet(n))))

select_all ==
    \E n \in SimpleSizes, ok \in BOOLEAN :
        Read("select_all", n, ok, ReadBody(ok, NoRow))

R_execute ==
    \E n \in SimpleSizes, ok \in BOOLEAN :
        Read("execute", n, ok, ReadBody(ok, NoRow))

\* ------------------------------------------------------- execute_in_batch
DefaultBatchSize == 1000
BatchSizes == (1..MaxBatch) \cup {DefaultBatchSize}

Gens == {"g1", "g2"}

Min(a, b) == IF a < b THEN a ELSE b

\* result_proxy.fetchmany(batch_size): the next rows, at most batch_size.
Fetchmany(rows, pos, b) == SubSeq(rows, pos + 1, Min(pos + b, Len(rows)))

\* A generator: new (not started), suspended (at its yield), or ended: done
\* (StopIteration), raised, closed (generator.close(), or collected).
\* sess: the session it opened; out: the batches it has yielded.
NewGen == [st |-> "new", sess |-> None, n |-> 0, b |-> 0, pos |-> 0, out |-> <<>>]

GenEnded(g, st) ==
    [st |-> st, sess |-> g.sess, n |-> 0, b |-> 0, pos |-> 0, out |-> <<>>]

\* Mutant of Loop: a batch shorter than batch_size ends the iteration
\* without being yielded.
LoopDropsShort(g, r0, ok) ==
    LET batch == Fetchmany(ResultSet(g.n), g.pos, g.b)
    IN  IF ~ok THEN [g |-> GenEnded(g, "raised"), r |-> RSessionExit(r0, TRUE)]
        ELSE IF Len(batch) < g.b
        THEN [g |-> [g EXCEPT !.st = "done"], r |-> RSessionExit(r0, FALSE)]
        ELSE [g |-> [g EXCEPT !.st = "suspended", !.pos = @ + Len(batch),
                              !.out = Append(@, batch)],
              r |-> r0]

\* One turn of the loop of generator g, inside "with self.session()": fetch;
\* an empty batch breaks out, which leaves the session scope; a failing
\* fetch (ok = FALSE) leaves it by the except branch; else yield the batch.
\* Leaving the scope closes whatever session the slot holds then.
Loop(g, r0, ok) ==
    LET batch == Fetchmany(ResultSet(g.n), g.pos, g.b)
    IN  IF ~ok THEN [g |-> GenEnded(g, "raised"), r |-> RSessionExit(r0, TRUE)]
        ELSE IF batch = <<>>
        THEN [g |-> [g EXCEPT !.st = "done"], r |-> RSessionExit(r0, FALSE)]
        ELSE [g |-> [g EXCEPT !.st = "suspended", !.pos = @ + Len(batch),
                              !.out = Append(@, batch)],
              r |-> r0]

\* The first next() of execute_in_batch(statement, batch_size): open the
\* session, execute the statement (n rows, or a failure), enter the loop.
Start(name, n, b, ok) ==
    \E r1 \in {RSession(r)} :
    \E res \in {Loop([st |-> "new", sess |-> r1.slot, n |-> n, b |-> b,
                      pos |-> 0, out |-> <<>>], r1, ok)} :
        /\ gens[name].st = "new"
        /\ r.made < MaxRSess
        /\ r' = res.r
        /\ gens' = [gens EXCEPT ![name] = res.g]
        /\ rlast' = NoRead

\* A later next(): the fetch on a session that was closed meanwhile fails
\* or still delivers, as the driver decides.
Resume(name) ==
    \E ok \in BOOLEAN :
    \E res \in {Loop(gens[name], r, ok)} :
        /\ gens[name].st = "suspended"
        /\ r' = res.r
        /\ gens' = [gens EXCEPT ![name] = res.g]
        /\ rlast' = NoRead

\* generator.close() at the yield: GeneratorExit is no Exception, so only
\* the finally branch of session() runs.
Close(name) ==
    /\ gens[name].st = "suspended"
    /\ r' = RClose(r)
    /\ gens' = [gens EXCEPT ![name] = GenEnded(@, "closed")]
    /\ rlast' = NoRead

execute_in_batch ==
    \E name \in Gens, n \in 0..MaxShared, b \in 1..MaxShared, ok \in BOOLEAN :
        Start(name, n, b, ok)

next_batch == \E name \in Gens : Resume(name)

close_generator == \E name \in Gens : Close(name)

\* One iteration alone, over every result size and batch size.
execute_in_batch_alone ==
    \E n \in 0..MaxRows, b \in BatchSizes, ok \in BOOLEAN : Start("g1", n, b, ok)

next_batch_alone == Resume("g1")

close_generator_alone == Close("g1")

\* ---------------------------------------------- DDLRepository.create_schemas
SchemaNames == {"s1", "s2", "s3"}

\* The lists of names a caller passes: at most MaxNames names, repeats allowed.
RECURSIVE NameLists(_)
NameLists(n) ==
    IF n = 0 THEN {<<>>}
    ELSE NameLists(n - 1)
         \cup {Append(l, x) : l \in {m \in NameLists(n - 1) : Len(m) = n - 1},
                               x \in SchemaNames}

\* connection.execute(CreateSchema(name)): "none" when the schema is created;
\* it fails with "exists" when the database holds the schema, and with
\* "other" when something else breaks (no privilege, a lost connection).
CreateSchema(have, name, broken) ==
    IF broken THEN "other" ELSE IF name \in have THEN "exists" ELSE "none"

\* except Exception: pass -- the failures the loop swallows: every one.
Swallows(failure) == failure \in {"exists", "other"}

\* for schema in schemas: one connection and one CREATE SCHEMA per name;
\* other: the positions of the list at which the statement breaks.
RECURSIVE CreateSchemasFrom(_, _, _, _)
CreateSchemasFrom(have, names, other, i) ==
    IF i > Len(names) THEN [schemas |-> have, out |-> "returned"]
    ELSE LET failure == CreateSchema(have, names[i], i \in other)
         IN  IF failure = "none"
             THEN CreateSchemasFrom(have \cup {names[i]}, names, other, i + 1)
             ELSE IF Swallows(failure)
             THEN CreateSchemasFrom(have, names, other, i + 1)
             ELSE [schemas |-> have, out |-> "raised"]

DdlRec(op, names, other, out) ==
    [op |-> op, names |-> names, other |-> other, out |-> out]
NoDdl == DdlRec("none", <<>>, {}, "returned")

create_schemas ==
    \E names \in NameLists(MaxNames) :
    \E other \in SUBSET (1..Len(names)) :
    \E res \in {CreateSchemasFrom(schemas, names, other, 1)} :
        /\ schemas' = res.schemas
        /\ dlast' = DdlRec("create_schemas", names, other, res.out)

\* ------------------------------------- two callers of one WriteRepository
\* The callers hold the same instance, hence the same slot and session.
Callers == {"A", "B"}

\* who: the caller of the last call; staged: the callers who changed the
\* view of the unit of work that is open; ended: those who had, in the unit
\* of work the last call ended; crossed: a commit() of one caller has made
\* durable a view that another caller had changed.
NoShare == [who |-> "", staged |-> {}, ended |-> {}, crossed |-> FALSE]

\* What the call that caller c makes in this step leaves of that record.
Share(c) ==
    LET ends == \/ wlast'.op \in {"commit", "rollback", "close"}
                \/ (wlast'.op \in MutationOps /\ wlast'.out = "raised")
        changed == /\ wlast'.op \in MutationOps /\ wlast'.out = "returned"
                   /\ View(w') # Cur
    IN  [who |-> c,
         staged |-> IF ends THEN {}
                    ELSE IF changed THEN shared.staged \cup {c}
                    ELSE shared.staged,
         ended |-> IF ends THEN shared.staged ELSE {},
         crossed |-> \/ shared.crossed
                     \/ /\ wlast'.op = "commit" /\ wlast'.out = "returned"
                        /\ Staged(w, committed)
                        /\ shared.staged \ {c} # {}]

\* ------------------------------------------------------ the specifications
WInit ==
    /\ committed = {}
    /\ durable = {}
    /\ seq = 0
    /\ w = [slot |-> None, sess |-> <<>>]
    /\ wlast = NoCall

RInit ==
    /\ r = [slot |-> None, made |-> 0, open |-> {}]
    /\ gens = [name \in Gens |-> NewGen]
    /\ rlast = NoRead

DInit ==
    /\ schemas = {}
    /\ dlast = NoDdl

Init == WInit /\ RInit /\ DInit /\ shared = NoShare

\* The WriteRepository and the table.
WNext ==
    \/ insert
    \/ bulk_insert
    \/ upsert
    \/ insert_ignore
    \/ insert_ignore_get_id
    \/ bulk_upsert
    \/ update
    \/ delete
    \/ W_execute
    \/ start_transaction
    \/ W_close
    \/ commit
    \/ rollback

Next == WNext /\ UNCHANGED <<rvars, dvars, shared>>

Spec == Init /\ [][Next]_vars

\* The ReadRepository with two iterations and the other calls interleaved.
RNext ==
    \/ select
    \/ select_all
    \/ R_execute
    \/ execute_in_batch
    \/ next_batch
    \/ close_generator

NextRead == RNext /\ UNCHANGED <<wvars, dvars, shared>>

SpecRead == Init /\ [][NextRead]_vars

\* The ReadRepository with one iteration over results of every size, and
\* the other calls in between.
BNext ==
    \/ select
    \/ select_all
    \/ R_execute
    \/ execute_in_batch_alone
    \/ next_batch_alone
    \/ close_generator_alone

NextBatch == BNext /\ UNCHANGED <<wvars, dvars, shared>>

SpecBatch == Init /\ [][NextBatch]_vars

\* The DDLRepository.
NextDDL == create_schemas /\ UNCHANGED <<wvars, rvars, shared>>

SpecDDL == Init /\ [][NextDDL]_vars

\* The calls of the two callers, interleaved call by call.
SNext ==
    \E c \in Callers :
        /\ \/ insert
           \/ delete
           \/ commit
           \/ rollback
        /\ shared' = Share(c)

NextShared == SNext /\ UNCHANGED <<rvars, dvars>>

SpecShared == Init /\ [][NextShared]_vars

\* ------------------------------------------------------------------ claims
\* C1: after any sequence of WriteRepository calls, each succeeding or
\* failing, the sessions the instance has created and not yet closed are at
\* most one.
C1_AtMostOneOpenSession == Cardinality(WOpen(w)) <= 1

\* A second session is open after the first one was closed.
C1_Witness == Len(w.sess) = 2 /\ WOpen(w) = {2} /\ w.slot = 2

\* C2: commit() and rollback() on a facade that holds an open session leave
\* that session closed and the slot empty, whether they return or raise.
C2_CommitRollbackAlwaysClose ==
    (wlast.op \in {"commit", "rollback"} /\ wlast.had # None)
        => (w.slot = None /\ ~w.sess[wlast.had].open)

\* C3: a mutation call that fails, in its body, in its statement or in the
\* flush, has closed the session and emptied the slot when it ends, and it
\* ends by raising: no failure becomes a normal return.
C3_FailureClosesAndRaises ==
    (wlast.op \in MutationOps /\ wlast.fault # "none")
        => (wlast.out = "raised" /\ w.slot = None /\ WOpen(w) = {})

\* Each place of failure is met, with a session created before the call.
C3_Witness ==
    /\ wlast.op = "upsert" /\ wlast.fault = "exec" /\ wlast.out = "raised"
    /\ Len(w.sess) >= 1 /\ ~w.sess[Len(w.sess)].open

\* C4: every ReadRepository call closes the session it opened once it has
\* ended, also when other read calls ran between two batches of an
\* execute_in_batch iteration: no session of a finished call stays open.
C4_ReadSessionClosedAfterCall ==
    /\ rlast.op # "none" => r.made \notin r.open
    /\ \A name \in Gens :
           gens[name].st \in {"done", "raised", "closed"}
               => gens[name].sess \notin r.open

\* C5: while an execute_in_batch iteration is suspended between two batches,
\* the session it fetches from is open, whatever other read calls or
\* iterations started or finished on the instance meanwhile.
C5_IterationSessionStaysOpen ==
    \A name \in Gens :
        gens[name].st = "suspended" => gens[name].sess \in r.open

RECURSIVE Flatten(_)
Flatten(batches) ==
    IF batches = <<>> THEN <<>>
    ELSE batches[1] \o Flatten(Tail(batches))

\* C6: a drained execute_in_batch over n rows with batch_size b >= 1 has
\* yielded ceil(n/b) batches, none empty nor longer than b, all but the last
\* of b rows, whose concatenation is the result in its order.
C6_BatchesPartitionResult ==
    \A name \in Gens :
        LET g == gens[name]
        IN  g.st = "done" =>
                /\ Len(g.out) = (g.n + g.b - 1) \div g.b
                /\ \A i \in 1..Len(g.out) :
                       /\ Len(g.out[i]) >= 1 /\ Len(g.out[i]) <= g.b
                       /\ i < Len(g.out) => Len(g.out[i]) = g.b
                /\ Flatten(g.out) = ResultSet(g.n)

\* Five rows drained in batches of two: sizes 2, 2, 1.
C6_Witness ==
    LET g == gens["g1"]
    IN  /\ g.st = "done" /\ g.n = 5 /\ g.b = 2
        /\ Len(g.out) = 3
        /\ Len(g.out[1]) = 2 /\ Len(g.out[2]) = 2 /\ Len(g.out[3]) = 1

\* C7: after rollback(), returned or raised, a read in a fresh session finds
\* for every filter what the last successful commit left: nothing staged
\* since then is observable.
C7_RollbackHidesStaged ==
    wlast.op = "rollback"
        => \A f \in Filters : Query(committed, f) = Query(durable, f)

\* A rollback of a session that held staged changes, over a durable table
\* that has rows.
C7_Witness ==
    wlast.op = "rollback" /\ wlast.after = "staged" /\ committed # {}

\* C8, as stated: right after a successful delete(model, filters), a
\* select_all(model, filters) in a fresh session returns an empty sequence.
C8_DeleteThenSelectAllEmpty ==
    (wlast.op = "delete" /\ wlast.out = "returned")
        => \A rows \in Query(committed, wlast.arg) : SelectAllResult(rows) = <<>>

\* C8, amended: after a successful delete(model, filters) and a successful
\* commit() right after it, a select_all(model, filters) in a fresh session
\* returns an empty sequence.
C8_DeleteCommitThenSelectAllEmpty ==
    (wlast.op = "commit" /\ wlast.out = "returned" /\ wlast.after = "delete")
        => \A rows \in Query(committed, wlast.arg) : SelectAllResult(rows) = <<>>

\* A committed delete by one key that left another row in the table.
C8_Witness ==
    /\ wlast.op = "commit" /\ wlast.out = "returned" /\ wlast.after = "delete"
    /\ wlast.arg.k # Star /\ committed # {}

\* C9, as stated: right after insert_ignore_get_id of an entity whose unique
\* key was absent, a select with the entity's filters in a fresh session
\* returns the row with the returned identifier.
C9_ReturnedIdReadable ==
    (wlast.op = "insert_ignore_get_id" /\ wlast.out = "returned"
        /\ wlast.after = "absent")
        => \A rows \in Query(committed, ScalarFilter(wlast.arg)) :
               SelectResult(rows).id = wlast.ret

\* C9, amended: after insert_ignore_get_id of an entity whose unique key was
\* absent and a successful commit() right after it, a select with the
\* entity's filters in a fresh session returns the row with the returned
\* identifier.
C9_ReturnedIdReadableAfterCommit ==
    (wlast.op = "commit" /\ wlast.out = "returned"
        /\ wlast.after = "insert_ignore_get_id")
        => \A rows \in Query(committed, ScalarFilter(wlast.arg)) :
               /\ SelectResult(rows) # NoRow
               /\ SelectResult(rows).id = wlast.ret

\* A committed insert_ignore_get_id of an entity with an explicit id, next
\* to a row whose id the sequence generated.
C9_Witness ==
    /\ wlast.op = "commit" /\ wlast.out = "returned"
    /\ wlast.after = "insert_ignore_get_id"
    /\ wlast.arg.id # NoId /\ wlast.ret = wlast.arg.id
    /\ Cardinality(committed) = 2

\* C10: after two successful upserts in a row of entities with the same
\* value in index_elements, the table of the unit of work holds exactly one
\* row with that value and its fields are those of the second entity.
C10_UpsertTwiceOneRow ==
    (wlast.op = "upsert" /\ wlast.out = "returned" /\ wlast.after = "upsert")
        => LET e == wlast.arg
               same == {q \in View(w) : q[wlast.idx] = e[wlast.idx]}
           IN  /\ Cardinality(same) = 1
               /\ \A q \in same :
                      /\ q.k = e.k /\ q.v = e.v
                      /\ (e.id # NoId => q.id = e.id)

\* A second upsert on the unique column k, beside another row.
C10_Witness ==
    /\ wlast.op = "upsert" /\ wlast.out = "returned" /\ wlast.after = "upsert"
    /\ wlast.idx = "k" /\ Cardinality(View(w)) = 2

\* C11: a bulk_upsert of an empty list that returns has issued no statement:
\* the durable table, the key sequence, the view of the unit of work with
\* the changes staged in it, and whether its session has begun a
\* transaction are as the call found them, whatever index_elements and
\* update_columns are.
C11_EmptyBulkUpsertNoOp ==
    [][(wlast'.op = "bulk_upsert" /\ wlast'.after = "empty"
            /\ wlast'.out = "returned")
        => /\ committed' = committed /\ durable' = durable /\ seq' = seq
           /\ w'.slot # None /\ w'.sess[w'.slot].open
           /\ View(w') = Cur
           /\ w'.sess[w'.slot].begun = (w.slot # None /\ w.sess[w.slot].begun)
           /\ (w.slot # None => w' = w)]_vars

\* An empty bulk_upsert on index k in a unit of work that holds staged rows.
C11_Witness ==
    /\ wlast.op = "bulk_upsert" /\ wlast.after = "empty"
    /\ wlast.out = "returned" /\ wlast.idx = "k"
    /\ View(w) # committed /\ View(w) # {}

\* C12: a select whose query ran and matched zero rows returns the sentinel
\* None as a normal result; a select whose query failed raises; either way
\* the session the call opened is closed.
C12_SelectAbsentIsNoneNotError ==
    rlast.op = "select"
        => /\ (rlast.fault = "none" /\ rlast.n = 0)
                => (rlast.out = "returned" /\ rlast.ret = NoRow)
           /\ rlast.fault = "exec" => rlast.out = "raised"
           /\ r.made \notin r.open

\* A select over zero rows returned the sentinel while an iteration of
\* execute_in_batch was suspended.
C12_Witness ==
    /\ rlast.op = "select" /\ rlast.fault = "none" /\ rlast.n = 0
    /\ rlast.out = "returned" /\ rlast.ret = NoRow
    /\ gens["g1"].st = "suspended"

\* C13: when start_transaction() has returned, the facade holds an open
\* session with a transaction begun, created by the call where there was
\* none.
C13_StartTransactionHoldsBegunSession ==
    (wlast.op = "start_transaction" /\ wlast.out = "returned")
        => (w.slot # None /\ w.sess[w.slot].open /\ w.sess[w.slot].begun)

\* C14: create_schemas swallows only the failure "schema already exists" and
\* goes on with the next name; when creating a schema fails otherwise, the
\* call raises.
C14_OnlyExistsSwallowed ==
    dlast.op = "create_schemas"
        => IF dlast.other = {}
           THEN /\ dlast.out = "returned"
                /\ \A i \in 1..Len(dlast.names) : dlast.names[i] \in schemas
           ELSE dlast.out = "raised"

\* C15: a successful mutation call right after a successful mutation call
\* runs in the same session, none being created; a successful mutation call
\* right after a commit, a rollback, a close or a failed mutation call
\* creates one fresh session, distinct from every earlier one, and runs in
\* it.
C15_SessionLifecycle ==
    [][(wlast'.op \in MutationOps /\ wlast'.out = "returned")
        => IF wlast.op \in MutationOps /\ wlast.out = "returned"
           THEN w'.slot = w.slot /\ Len(w'.sess) = Len(w.sess)
           ELSE (wlast.op \in {"commit", "rollback", "close"}
                    \/ (wlast.op \in MutationOps /\ wlast.out = "raised"))
                => /\ Len(w'.sess) = Len(w.sess) + 1
                   /\ w'.slot = Len(w'.sess)
                   /\ WOpen(w') = {w'.slot}]_vars

\* C16: a successful mutation call leaves its session open in the slot and
\* the durable table as it was, so that a read in a fresh session returns
\* for every filter what it returned before the call; the durable table
\* changes only by a commit() that returns, which makes it the view of the
\* session the facade held.
C16_FlushIsNotCommit ==
    [][/\ (wlast'.op \in MutationOps /\ wlast'.out = "returned")
            => /\ w'.slot # None /\ w'.sess[w'.slot].open
               /\ \A f \in Filters : Query(committed', f) = Query(committed, f)
       /\ committed' # committed
            => /\ wlast'.op = "commit" /\ wlast'.out = "returned"
               /\ w.slot # None /\ committed' = View(w)]_vars

\* An update has returned and its change is in the view of the open session
\* alone: the durable table has rows and differs from the view.
C16_Witness ==
    /\ wlast.op = "update" /\ wlast.out = "returned"
    /\ w.slot # None /\ committed # {} /\ View(w) # committed

\* C17: insert_ignore_get_id of an entity whose insert is ignored for a
\* conflict returns, and what it returns is the primary key of a row of the
\* table whose columns equal the entity's scalar fields; so it does also
\* when the conflicting row differs from the entity in a non-key field.
C17_ConflictReturnsExistingId ==
    (wlast.op = "insert_ignore_get_id" /\ wlast.after = "conflict")
        => /\ wlast.out = "returned"
           /\ \E q \in View(w) :
                  q.id = wlast.ret /\ Matches(q, ScalarFilter(wlast.arg))

\* C18: the callers of one WriteRepository are not isolated.  Whoever calls
\* it, a commit() that returns makes durable the whole view of the session,
\* with the changes every caller staged in it, and a failed mutation call
\* or a rollback() leaves no staged change of any caller; the witness is an
\* interleaving in which a commit() of one caller has made durable the
\* changes of the other and a failed call of A discards what B alone staged.
C18_CallersNotIsolated ==
    [][/\ (wlast'.op = "commit" /\ wlast'.out = "returned" /\ w.slot # None)
            => /\ committed' = View(w)
               /\ shared'.ended = shared.staged /\ shared'.staged = {}
       /\ ((wlast'.op \in MutationOps /\ wlast'.out = "raised")
                \/ wlast'.op = "rollback")
            => /\ committed' = committed
               /\ ~Staged(w', committed')
               /\ shared'.ended = shared.staged /\ shared'.staged = {}]_vars

C18_Witness ==
    /\ shared.crossed
    /\ shared.who = "A" /\ shared.ended = {"B"}
    /\ wlast.op = "insert" /\ wlast.out = "raised" /\ wlast.lost

\* C19: a failed mutation call leaves no session, open or in the slot; a
\* commit() issued next returns without an error and changes neither the
\* durable table nor the facade; and a commit() that returns with a session
\* makes durable the view of that session, which holds nothing staged
\* before the last commit, rollback, close or failure: a session without a
\* transaction begun sees the durable table as it is.
C19_FailureDiscardsStaged ==
    [][/\ (wlast.op \in MutationOps /\ wlast.out = "raised")
            => /\ w.slot = None /\ WOpen(w) = {}
               /\ wlast'.op = "commit"
                    => /\ wlast'.out = "returned" /\ wlast'.had = None
                       /\ committed' = committed /\ durable' = durable
                       /\ w' = w
       /\ (w.slot # None /\ ~w.sess[w.slot].begun) => View(w) = committed
       /\ (wlast'.op = "commit" /\ wlast'.out = "returned" /\ w.slot # None)
            => committed' = View(w) /\ durable' = View(w)]_vars

\* A commit() right after a failed call that closed a session with staged
\* changes: it found no session and the durable table is still empty.
C19_Witness ==
    /\ wlast.op = "commit" /\ wlast.after = "failure"
    /\ wlast.out = "returned" /\ wlast.had = None
    /\ committed = {} /\ seq >= 1

====
